---------------------------- MODULE Spec2Model ----------------------------
(***************************************************************************)
(* A model of the ffthumbs package: the Generator with its goroutine pool  *)
(* (ffmpeg.go) and the filter-graph compiler (BuildComplexFilters).        *)
(*                                                                         *)
(* A request is one *GenerateRequest value.  Its life is written down in   *)
(* phase[r]:                                                               *)
(*   "new"      not passed to the Generator yet                            *)
(*   "invoke"   GenerateAsync took an id and is inside pool.Invoke         *)
(*   "handed"   pool.Invoke returned nil, a pool worker holds the request  *)
(*   "running"  Generate ran wg.Add(1) and cmd.Start succeeded             *)
(*   "returned" Generate returned inside handleRequest (wg.Done ran) and   *)
(*              handleRequest has a result to send                         *)
(*   "done"     the call is over: Generate returned to a synchronous       *)
(*              caller, or handleRequest returned and the worker is free   *)
(***************************************************************************)
EXTENDS Integers, Sequences, FiniteSets, TLC

\* ------------------------------------------------------------------ bounds
MaxReqs == 3
MaxCalls == 2
MaxCallers == 2
MaxConcurrency == 2
MaxErrLines == 1

\* doneChan := make(chan *ffthumbs.GenerateResult, 1)
ChanCap == 1

Reqs == 1..MaxReqs
Callers == 1..MaxCallers

VARIABLES
    poolCap,     \* g.pool.Cap()
    lastReqId,   \* g.lastReqId
    wg,          \* g.wg counter
    phase,       \* where each request is
    kind,        \* "none" | "sync" | "async" (DoneChan set) | "asyncNoChan"
    caller,      \* the goroutine that passed the request in (0: nobody yet)
    id,          \* req.id
    ctx,         \* req.Context: "nil" | "live" | "done"
    proc,        \* the ffmpeg process: "none" | "running" | "exit0" | "exit1" | "killed"
    genErr,      \* what Generate returned: "unset" | "nil" | "pipe" | "start" | "ctx" | "exit"
    errWritten,  \* every line the process wrote to its stderr
    stderrPipe,  \* lines in the stderr pipe, not read yet
    stdErrLog,   \* the strings.Builder the stderr goroutine fills
    logged,      \* the error log record Generate wrote for the request
    doneChan,    \* the buffered result channel: the requests whose result is in it
    sent,        \* per request, the Err of every GenerateResult sent for it
    handOrder,   \* ids in the order pool.Invoke handed them to workers
    waitPc,      \* the goroutine calling Wait: "idle" | "waiting" | "returned"
    waitSnap,    \* requests submitted, and not finished, when Wait was called
    outputs,     \* cfg.Outputs, with idx, inName and outName
    filtersStr,  \* cfg.filtersStr, as a sequence of tokens
    buildErr,    \* "unbuilt", "nil", or the ValidationErrType of NewGenerator's error
    direct,      \* the last call of BuildComplexFilters by a caller: the list
                 \* as it was passed and what the call returned
    genCmdArgs,  \* g.cmdArgs
    disableProgressLogs,  \* cfg.DisableProgressLogs
    outputDst,   \* req.OutputDst of each request: output index -> path
    cmdArgs,     \* the arguments of each request's ffmpeg command
    tune,        \* the concurrency last supplied, the requests that held a
                 \* worker at the last SetConcurrency, the number of calls
    stdoutLines, \* every line each process wrote to its stdout
    listener,    \* listenForProgressLogs: progress, currTime, speed and the
                 \* number of lines scanner.Scan() returned
    progressLog, \* the "Progress update" records logged for each request
    scaleEq      \* the last call of IsSameScaleConfig or ScaleConfig.Eq: the
                 \* two pointers and what the call returned

vars == <<poolCap, lastReqId, wg, phase, kind, caller, id, ctx, proc, genErr,
          errWritten, stderrPipe, stdErrLog, logged, doneChan, sent,
          handOrder, waitPc, waitSnap, outputs, filtersStr, buildErr, direct,
          genCmdArgs, disableProgressLogs, outputDst, cmdArgs, tune,
          stdoutLines, listener, progressLog, scaleEq>>

\* ------------------------------------------------- the filter-graph compiler
\* OutputType and ScaleBehavior
OutputTypeThumbs == 0
OutputTypeSprites == 1
ScaleBehaviorNone == 0
ScaleBehaviorFillToKeepAspectRatio == 1
ScaleBehaviorCropToFit == 2

\* An OutputConfig is a record Type, SnapshotInterval (in milliseconds), Scale,
\* Sprites (the Dimensions), Quality, idx, inName, outName.  A graph is the
\* sequence of the pieces the builders write: a label is the three tokens
\* "[", name, "]", and ";" and "," are tokens of their own.

RECURSIVE Flatten(_)
Flatten(ss) == IF ss = <<>> THEN <<>> ELSE Head(ss) \o Flatten(Tail(ss))

\* the sequences that hold every element of S once: the orders in which a
\* range over a Go map can visit its keys
Perms(S) ==
    {p \in [1..Cardinality(S) -> S] :
        \A i, j \in 1..Cardinality(S) : i # j => p[i] # p[j]}

\* the first rule an output violates, "nil" when it violates none
validateOutput(o) ==
    IF o.Quality # 0 /\ (o.Quality < 1 \/ o.Quality > 31) THEN "Quality"
    ELSE IF o.SnapshotInterval < 1 THEN "SnapshotInterval"
    ELSE IF o.Scale.Width < 0 /\ o.Scale.Height < 0 THEN "Scale"
    ELSE IF o.Scale.Width = 0 THEN "Scale"
    ELSE IF o.Scale.Height = 0 THEN "Scale"
    ELSE IF o.Type = OutputTypeSprites /\ o.Sprites.Rows < 1 THEN "SpiteDims"
    ELSE IF o.Type = OutputTypeSprites /\ o.Sprites.Columns < 1 THEN "SpiteDims"
    ELSE IF o.Type \notin {OutputTypeThumbs, OutputTypeSprites} THEN "OutputType"
    ELSE IF o.Scale.Behavior \notin {ScaleBehaviorNone,
                                     ScaleBehaviorFillToKeepAspectRatio,
                                     ScaleBehaviorCropToFit} THEN "ScaleBehavior"
    ELSE "nil"

\* a loop that keeps the last violation instead of returning at the first
RECURSIVE validateKeepingLast(_)
validateKeepingLast(outs) ==
    IF outs = <<>> THEN "nil"
    ELSE IF validateKeepingLast(Tail(outs)) # "nil"
         THEN validateKeepingLast(Tail(outs))
    ELSE validateOutput(Head(outs))

RECURSIVE validateFrom(_)
validateFrom(outs) ==
    IF outs = <<>> THEN "nil"
    ELSE IF validateOutput(Head(outs)) # "nil" THEN validateOutput(Head(outs))
    ELSE validateFrom(Tail(outs))

validateOutputs(outs) ==
    IF Len(outs) = 0 THEN "NoOutputs" ELSE validateFrom(outs)

\* the 24 bytes hashed for an output: the three AppendUint64 calls return the
\* grown slice and the code drops it, so tmpBytes stays empty
TmpBytes(o) == <<>>

\* hex(sha256(tmpBytes)): different bytes give different keys
HashStr(o) == TmpBytes(o)

groupOutputs(outs) ==
    LET ivs == {outs[i].SnapshotInterval : i \in 1..Len(outs)}
        keys(iv) == {HashStr(outs[i]) :
                         i \in {j \in 1..Len(outs) : outs[j].SnapshotInterval = iv}}
        InBucket(iv, h, o) == o.SnapshotInterval = iv /\ HashStr(o) = h
    IN  [iv \in ivs |->
            [h \in keys(iv) |-> SelectSeq(outs, LAMBDA o : InBucket(iv, h, o))]]

\* %g of the interval in seconds, for an interval of whole milliseconds
FormatSeconds(ms) ==
    LET d1 == (ms % 1000) \div 100
        d2 == (ms % 100) \div 10
        d3 == ms % 10
    IN  ToString(ms \div 1000) \o
        (IF ms % 1000 = 0 THEN ""
         ELSE "." \o ToString(d1) \o
              (IF d2 = 0 /\ d3 = 0 THEN ""
               ELSE ToString(d2) \o (IF d3 = 0 THEN "" ELSE ToString(d3))))

buildSelectFramesArg(o) ==
    <<"[", "0:v", "]", "select=bitor(gte(t-prev_selected_t\\,",
      FormatSeconds(o.SnapshotInterval), ")\\,isnan(prev_selected_t)),">>

buildScaleArg(scale) ==
    <<"scale=", ToString(scale.Width), ":", ToString(scale.Height)>> \o
    (IF scale.Behavior = ScaleBehaviorFillToKeepAspectRatio
     THEN <<":force_original_aspect_ratio=decrease", ",", "pad=",
            ToString(scale.Width), ":", ToString(scale.Height),
            ":-1:-1:color=black">>
     ELSE IF scale.Behavior = ScaleBehaviorCropToFit
     THEN <<":force_original_aspect_ratio=increase", ",", "crop=",
            ToString(scale.Width), ":", ToString(scale.Height)>>
     ELSE <<>>)

buildSplitArgThumbOutName(o) == "thumbs-" \o ToString(o.idx) \o "-out"

buildSplitArgSpiteInOutNames(o) ==
    [in |-> "sprites-" \o ToString(o.idx),
     out |-> "sprites-" \o ToString(o.idx) \o "-out"]

\* the first loop of buildSplitArg: the output gets its node names
WithNames(o) ==
    IF o.Type = OutputTypeThumbs
    THEN [o EXCEPT !.outName = buildSplitArgThumbOutName(o)]
    ELSE IF o.Type = OutputTypeSprites
    THEN [o EXCEPT !.inName = buildSplitArgSpiteInOutNames(o).in,
                   !.outName = buildSplitArgSpiteInOutNames(o).out]
    ELSE o

writeFilterOutputName(name) == <<"[", name, "]">>

buildSplitSpriteTileArg(o) ==
    <<"tile=", ToString(o.Sprites.Columns), "x", ToString(o.Sprites.Rows)>>

buildSplitSpriteArg(o) ==
    writeFilterOutputName(o.inName) \o buildSplitSpriteTileArg(o) \o
    writeFilterOutputName(o.outName)

\* a fan-out that always has two branches
SplitCountOfPair(outs) == 2

\* strconv.Itoa(len(outputs)) after ",split="
SplitCount(outs) == Len(outs)

buildSplitArg(outs) ==
    LET named == [i \in 1..Len(outs) |-> WithNames(outs[i])]
        branch(o) == IF o.Type = OutputTypeThumbs THEN <<"[", o.outName, "]">>
                     ELSE IF o.Type = OutputTypeSprites THEN <<"[", o.inName, "]">>
                     ELSE <<"[", "]">>
        needExtendedProcessing ==
            SelectSeq(named, LAMBDA o : o.Type = OutputTypeSprites)
        \* idx++ and then idx < len(outputs): the length of the whole bucket
        extended(k) == buildSplitSpriteArg(needExtendedProcessing[k]) \o
                       (IF k < Len(outs) THEN <<";">> ELSE <<>>)
    IN  IF Len(outs) = 1
        THEN IF named[1].Type = OutputTypeThumbs
             THEN writeFilterOutputName(named[1].outName)
             ELSE IF named[1].Type = OutputTypeSprites
             THEN <<",">> \o buildSplitSpriteTileArg(named[1]) \o
                  writeFilterOutputName(named[1].outName)
             ELSE <<>>
        ELSE <<",", "split=", ToString(SplitCount(outs))>> \o
             Flatten([i \in 1..Len(outs) |-> branch(named[i])]) \o
             (IF Len(needExtendedProcessing) = 0 THEN <<>>
              ELSE <<";">> \o
                   Flatten([k \in 1..Len(needExtendedProcessing) |-> extended(k)]))

\* what BuildComplexFilters writes for one interval; hashOrder is the order in
\* which the range over the interval's map visits the hash keys
buildSubgroup(subgrp, hashOrder) ==
    IF Cardinality(DOMAIN subgrp) = 1
    THEN LET outs == subgrp[CHOOSE h \in DOMAIN subgrp : TRUE]
         IN  buildSelectFramesArg(outs[1]) \o buildScaleArg(outs[1].Scale) \o
             buildSplitArg(outs)
    ELSE LET hs == SelectSeq(hashOrder, LAMBDA h : h \in DOMAIN subgrp)
             one(outs, i) ==
                 buildSelectFramesArg(outs[i]) \o buildScaleArg(outs[i].Scale) \o
                 buildSplitArg(<<outs[i]>>) \o
                 (IF i < Len(outs) THEN <<";">> ELSE <<>>)
             all(outs) == Flatten([i \in 1..Len(outs) |-> one(outs, i)])
         IN  Flatten([k \in 1..Len(hs) |-> all(subgrp[hs[k]])])

\* BuildComplexFilters: the error, the graph, and the outputs as the call
\* leaves them (buildSplitArg names every output of every bucket).  order and
\* hashOrder are the orders in which the two ranges visit their maps.
BuildComplexFilters(outs, order, hashOrder) ==
    IF validateOutputs(outs) # "nil"
    THEN [err |-> validateOutputs(outs), str |-> <<>>, outputs |-> outs]
    ELSE LET grpOutputs == groupOutputs(outs)
             part(k) == buildSubgroup(grpOutputs[order[k]], hashOrder) \o
                        (IF k < Len(order) THEN <<";">> ELSE <<>>)
         IN  [err |-> "nil",
              str |-> Flatten([k \in 1..Len(order) |-> part(k)]),
              outputs |-> [i \in 1..Len(outs) |-> WithNames(outs[i])]]

\* the orders the two ranges can take for a list of outputs
GroupOrders(outs) == Perms({outs[i].SnapshotInterval : i \in 1..Len(outs)})
HashOrders(outs) == Perms({HashStr(outs[i]) : i \in 1..Len(outs)})

DefaultFilename == "%04d.jpg"

\* NewGenerator's loop over cfg.Outputs: output.idx = idx, and an empty
\* DstPath becomes DefaultFilename
WithIdx(outs) ==
    [i \in 1..Len(outs) |->
        [outs[i] EXCEPT !.idx = i - 1,
                        !.DstPath = IF @ = "" THEN DefaultFilename ELSE @]]

\* cfg.Headers: no header, or one
NoHeaders == [key \in {} |-> ""]
HeaderChoices == {NoHeaders, [key \in {"Referer"} |-> "https://example.org"]}

\* keyOrder is the order in which the range visits the map
BuildHeadersStr(headers, keyOrder) ==
    LET RECURSIVE written(_)
        written(keys) ==
            IF keys = <<>> THEN ""
            ELSE Head(keys) \o ": " \o headers[Head(keys)] \o "\r\n" \o
                 written(Tail(keys))
    IN  written(keyOrder)

\* g.cmdArgs as NewGenerator builds it (a map of at most one header has one
\* order)
GlobalArgs(headers) ==
    <<"-loglevel", "error">> \o
    (IF Cardinality(DOMAIN headers) > 0
     THEN <<"-headers",
            BuildHeadersStr(headers, CHOOSE ks \in Perms(DOMAIN headers) : TRUE)>>
     ELSE <<>>)

\* an OutputConfig as a caller writes it
OutputConfig(type, interval, scale) ==
    [Type |-> type, SnapshotInterval |-> interval, Scale |-> scale,
     Sprites |-> [Columns |-> 5, Rows |-> 4], Quality |-> 0, DstPath |-> "",
     idx |-> 0, inName |-> "", outName |-> ""]

\* Outputs of examples/async
ExampleOutputs ==
    <<OutputConfig(OutputTypeThumbs, 6500,
                   [Width |-> 320, Height |-> 180,
                    Behavior |-> ScaleBehaviorFillToKeepAspectRatio])>>

\* ------------------------------------------------------------- NewGenerator
EffectiveConcurrency(concurrency) ==
    IF concurrency <= 0 THEN 2 ELSE concurrency

\* no call of BuildComplexFilters by a caller yet
NoCall == [outputs |-> <<>>, str |-> <<>>, err |-> "none"]

NoLog == [msg |-> "none", stderr |-> <<>>]

\* var progress, currTime, speed string, and a scanner that read no line
NoProgress == [progress |-> "", currTime |-> "", speed |-> "", lines |-> 0]

\* a *ScaleConfig is the empty sequence when it is nil, else the sequence of
\* the one ScaleConfig it points to
NilScale == <<>>

\* no call of IsSameScaleConfig or ScaleConfig.Eq yet
NoEq == [fn |-> "none", c1 |-> NilScale, c2 |-> NilScale, res |-> FALSE]

\* the Generator's request state when NewGenerator returns it, with a pool of
\* cap workers (0: there is no Generator)
EmptyGenerator(cap) ==
    /\ poolCap = cap
    /\ lastReqId = 0
    /\ wg = 0
    /\ phase = [r \in Reqs |-> "new"]
    /\ kind = [r \in Reqs |-> "none"]
    /\ caller = [r \in Reqs |-> 0]
    /\ id = [r \in Reqs |-> 0]
    /\ ctx = [r \in Reqs |-> "nil"]
    /\ proc = [r \in Reqs |-> "none"]
    /\ genErr = [r \in Reqs |-> "unset"]
    /\ errWritten = [r \in Reqs |-> <<>>]
    /\ stderrPipe = [r \in Reqs |-> <<>>]
    /\ stdErrLog = [r \in Reqs |-> <<>>]
    /\ logged = [r \in Reqs |-> NoLog]
    /\ doneChan = <<>>
    /\ sent = [r \in Reqs |-> <<>>]
    /\ handOrder = <<>>
    /\ waitPc = "idle"
    /\ waitSnap = {}
    /\ cmdArgs = [r \in Reqs |-> <<>>]
    /\ stdoutLines = [r \in Reqs |-> <<>>]
    /\ listener = [r \in Reqs |-> NoProgress]
    /\ progressLog = [r \in Reqs |-> <<>>]

\* the concurrency n was supplied last, and SetConcurrency was never called
Supplied(n) == [supplied |-> n, inFlight |-> {}, calls |-> 0]

\* OutputDst of the requests of examples/async
ExampleOutputDst ==
    [r \in Reqs |->
        [idx \in {0} |-> "tears_of_steel_" \o ToString(r) \o "/%04d.jpg"]]

\* the state after NewGenerator(cfg) with the Outputs of examples/async and
\* any Concurrency
Init ==
    /\ \E concurrency \in 0..MaxConcurrency :
           /\ EmptyGenerator(EffectiveConcurrency(concurrency))
           /\ tune = Supplied(concurrency)
    /\ genCmdArgs = GlobalArgs(NoHeaders)
    /\ disableProgressLogs = FALSE
    /\ outputDst = ExampleOutputDst
    /\ \E order \in GroupOrders(ExampleOutputs),
          hashOrder \in HashOrders(ExampleOutputs) :
           LET built == BuildComplexFilters(WithIdx(ExampleOutputs),
                                            order, hashOrder)
           IN  /\ outputs = built.outputs
               /\ filtersStr = built.str
               /\ buildErr = built.err
    /\ direct = NoCall
    /\ scaleEq = NoEq

\* ------------------------------------------------------------------ helpers
IsAsync(r) == kind[r] \in {"async", "asyncNoChan"}

\* a worker that is free again as soon as Generate has returned
HoldsWorkerWhileGenerating(r) ==
    IsAsync(r) /\ phase[r] \in {"handed", "running"}

\* a pool worker is occupied from the hand-off until handleRequest returns
HoldsWorker(r) ==
    IsAsync(r) /\ phase[r] \in {"handed", "running", "returned"}

Running == Cardinality({r \in Reqs : HoldsWorker(r)})

\* the goroutine c is inside GenerateAsync or inside a synchronous Generate
CallerBusy(c) ==
    \E r \in Reqs : caller[r] = c /\ phase[r] \notin {"new", "done"}
                    /\ (kind[r] = "sync" \/ phase[r] = "invoke")

\* requests are taken in the order of their index
NextNew(r) == phase[r] = "new" /\ \A q \in Reqs : q < r => phase[q] # "new"

\* a goroutine is told from the others only by the calls it made
NextCaller(c) == \A d \in Callers : d < c => \E r \in Reqs : caller[r] = d

GenerateFinished(r) == phase[r] \in {"returned", "done"}

\* ------------------------------------------------------------ GenerateAsync
\* a counter that is read and written back without the atomic add
NextReqIdNotAtomic == IF lastReqId = 0 THEN 1 ELSE lastReqId

\* g.lastReqId.Add(1)
NextReqId == lastReqId + 1

\* GenerateAsync up to the call of pool.Invoke: the request takes its id.
\* ctx0 is the Context the caller put in the request: none, one that is live,
\* or one that is done already.
GenerateAsync(c, r, hasChan, ctx0) ==
    /\ ~CallerBusy(c)
    /\ NextCaller(c)
    /\ NextNew(r)
    /\ lastReqId' = NextReqId
    /\ id' = [id EXCEPT ![r] = NextReqId]
    /\ kind' = [kind EXCEPT ![r] = IF hasChan THEN "async" ELSE "asyncNoChan"]
    /\ caller' = [caller EXCEPT ![r] = c]
    /\ ctx' = [ctx EXCEPT ![r] = ctx0]
    /\ phase' = [phase EXCEPT ![r] = "invoke"]
    /\ UNCHANGED <<poolCap, wg, proc, genErr, errWritten, stderrPipe, stdErrLog,
                   logged, doneChan, sent, handOrder, waitPc, waitSnap,
                   outputs, filtersStr, buildErr, direct,
                   genCmdArgs, disableProgressLogs, outputDst, cmdArgs, tune,
                   stdoutLines, listener, progressLog, scaleEq>>

\* a pool that hands a task over only when no worker at all is occupied
PoolIdle == Running = 0

\* pool.Invoke blocks while every worker is occupied (blocking pool, no limit
\* on blocked callers)
PoolHasFreeWorker == Running < poolCap

\* pool.Invoke returns nil: a worker took the request; GenerateAsync returns
PoolInvoke(r) ==
    /\ phase[r] = "invoke"
    /\ PoolHasFreeWorker
    /\ phase' = [phase EXCEPT ![r] = "handed"]
    /\ handOrder' = Append(handOrder, id[r])
    /\ UNCHANGED <<poolCap, lastReqId, wg, kind, caller, id, ctx, proc, genErr,
                   errWritten, stderrPipe, stdErrLog, logged, doneChan, sent,
                   waitPc, waitSnap,
                   outputs, filtersStr, buildErr, direct,
                   genCmdArgs, disableProgressLogs, outputDst, cmdArgs, tune,
                   stdoutLines, listener, progressLog, scaleEq>>

\* ----------------------------------------------------------------- Generate
\* the phase a request is in once Generate has returned: a synchronous call is
\* over; handleRequest has a result to send when there is a DoneChan, and
\* returns at once when there is none
AfterGenerate(k) == IF k = "async" THEN "returned" ELSE "done"

\* cmd.Start's answer: a done Context makes it return the Context's error
StartResult(c0, outcome) ==
    IF outcome = "pipe" THEN "pipe"
    ELSE IF c0 = "done" THEN "ctx"
    ELSE outcome

\* the graph as the string strings.Builder returned
RECURSIVE JoinTokens(_)
JoinTokens(g) == IF g = <<>> THEN "" ELSE Head(g) \o JoinTokens(Tail(g))

MediaURL(r) == "media-" \o ToString(r)

\* -q:v for every output, whatever its Quality
QualityArgAlways(o) == <<"-q:v", ToString(o.Quality)>>

QualityArg(o) ==
    IF o.Quality > 0 THEN <<"-q:v", ToString(o.Quality)>> ELSE <<>>

\* req.OutputDst[output.idx] when the map has the index, else output.DstPath
OutputDstOf(r, o) ==
    IF o.idx \in DOMAIN outputDst[r] THEN outputDst[r][o.idx] ELSE o.DstPath

\* the arguments Generate gives the command of request r
BuildCmdArgs(r) ==
    genCmdArgs \o <<"-i", MediaURL(r)>> \o
    <<"-filter_complex", JoinTokens(filtersStr)>> \o <<"-vsync", "0">> \o
    Flatten([i \in 1..Len(outputs) |->
                <<"-map", "[" \o outputs[i].outName \o "]">> \o
                QualityArg(outputs[i]) \o <<OutputDstOf(r, outputs[i])>>]) \o
    (IF ~disableProgressLogs THEN <<"-progress", "pipe:1">> ELSE <<>>)

\* Generate from g.wg.Add(1) to cmd.Start, for a request of kind k with
\* Context c0.  cmd.StdoutPipe or cmd.StderrPipe fails, or cmd.Start fails:
\* Generate returns the error and the deferred wg.Done undoes the Add.
\* Otherwise the process runs and wg counts the request.
GenerateBegin(r, k, c0, outcome) ==
    LET res == StartResult(c0, outcome)
    IN  /\ cmdArgs' = [cmdArgs EXCEPT ![r] = BuildCmdArgs(r)]
        /\ IF res = "ok"
           THEN /\ wg' = wg + 1
                /\ proc' = [proc EXCEPT ![r] = "running"]
                /\ phase' = [phase EXCEPT ![r] = "running"]
                /\ UNCHANGED <<genErr, logged>>
           ELSE /\ genErr' = [genErr EXCEPT ![r] = res]
                /\ logged' = [logged EXCEPT ![r] =
                                 IF res = "pipe" THEN NoLog
                                 ELSE [msg |-> "ffmpeg start failed",
                                       stderr |-> <<>>]]
                /\ phase' = [phase EXCEPT ![r] = AfterGenerate(k)]
                /\ UNCHANGED <<wg, proc>>

\* a caller's synchronous Generate(req), on the caller's goroutine
GenerateSync(c, r, ctx0, outcome) ==
    /\ ~CallerBusy(c)
    /\ NextCaller(c)
    /\ NextNew(r)
    /\ kind' = [kind EXCEPT ![r] = "sync"]
    /\ caller' = [caller EXCEPT ![r] = c]
    /\ ctx' = [ctx EXCEPT ![r] = ctx0]
    /\ GenerateBegin(r, "sync", ctx0, outcome)
    /\ UNCHANGED <<poolCap, lastReqId, id, errWritten, stderrPipe, stdErrLog,
                   doneChan, sent, handOrder, waitPc, waitSnap,
                   outputs, filtersStr, buildErr, direct,
                   genCmdArgs, disableProgressLogs, outputDst, tune,
                   stdoutLines, listener, progressLog, scaleEq>>

\* the worker's handleRequest calls g.Generate(req)
GenerateInWorker(r, outcome) ==
    /\ phase[r] = "handed"
    /\ GenerateBegin(r, kind[r], ctx[r], outcome)
    /\ UNCHANGED <<poolCap, lastReqId, kind, caller, id, ctx, errWritten,
                   stderrPipe, stdErrLog, doneChan, sent, handOrder, waitPc,
                   waitSnap,
                   outputs, filtersStr, buildErr, direct,
                   genCmdArgs, disableProgressLogs, outputDst, tune,
                   stdoutLines, listener, progressLog, scaleEq>>

\* the process writes one more line to its standard error
ProcWriteStderr(r) ==
    /\ proc[r] = "running"
    /\ Len(errWritten[r]) < MaxErrLines
    /\ LET line == Len(errWritten[r]) + 1
       IN  /\ errWritten' = [errWritten EXCEPT ![r] = Append(@, line)]
           /\ stderrPipe' = [stderrPipe EXCEPT ![r] = Append(@, line)]
    /\ UNCHANGED <<poolCap, lastReqId, wg, phase, kind, caller, id, ctx, proc,
                   genErr, stdErrLog, logged, doneChan, sent, handOrder, waitPc,
                   waitSnap,
                   outputs, filtersStr, buildErr, direct,
                   genCmdArgs, disableProgressLogs, outputDst, cmdArgs, tune,
                   stdoutLines, listener, progressLog, scaleEq>>

\* the stderr goroutine: scanner.Scan() got a line, stdErrLog.Write
StderrRead(r) ==
    /\ phase[r] = "running"
    /\ stderrPipe[r] # <<>>
    /\ stdErrLog' = [stdErrLog EXCEPT ![r] = Append(@, Head(stderrPipe[r]))]
    /\ stderrPipe' = [stderrPipe EXCEPT ![r] = Tail(@)]
    /\ UNCHANGED <<poolCap, lastReqId, wg, phase, kind, caller, id, ctx, proc,
                   genErr, errWritten, logged, doneChan, sent, handOrder,
                   waitPc, waitSnap,
                   outputs, filtersStr, buildErr, direct,
                   genCmdArgs, disableProgressLogs, outputDst, cmdArgs, tune,
                   stdoutLines, listener, progressLog, scaleEq>>

\* the process exits by itself, with status 0 or not
ProcExit(r, code) ==
    /\ proc[r] = "running"
    /\ proc' = [proc EXCEPT ![r] = IF code = 0 THEN "exit0" ELSE "exit1"]
    /\ UNCHANGED <<poolCap, lastReqId, wg, phase, kind, caller, id, ctx, genErr,
                   errWritten, stderrPipe, stdErrLog, logged, doneChan, sent,
                   handOrder, waitPc, waitSnap,
                   outputs, filtersStr, buildErr, direct,
                   genCmdArgs, disableProgressLogs, outputDst, cmdArgs, tune,
                   stdoutLines, listener, progressLog, scaleEq>>

\* a cancellation that leaves a started process alone
ProcIgnoresCancel(r) == proc[r]

\* exec.CommandContext: the process is killed when the Context becomes done
\* before the command completes
ProcAfterCancel(r) == IF proc[r] = "running" THEN "killed" ELSE proc[r]

\* the caller cancels req.Context while the request is in flight
Cancel(r) ==
    /\ ctx[r] = "live"
    /\ phase[r] \in {"invoke", "handed", "running"}
    /\ ctx' = [ctx EXCEPT ![r] = "done"]
    /\ proc' = [proc EXCEPT ![r] = ProcAfterCancel(r)]
    /\ UNCHANGED <<poolCap, lastReqId, wg, phase, kind, caller, id, genErr,
                   errWritten, stderrPipe, stdErrLog, logged, doneChan, sent,
                   handOrder, waitPc, waitSnap,
                   outputs, filtersStr, buildErr, direct,
                   genCmdArgs, disableProgressLogs, outputDst, cmdArgs, tune,
                   stdoutLines, listener, progressLog, scaleEq>>

\* the error of cmd.Wait: an ExitError for a process that did not exit with 0,
\* else the Context's error when the Context was done before Wait, else nil
WaitErr(r) ==
    IF proc[r] \in {"exit1", "killed"} THEN "exit"
    ELSE IF ctx[r] = "done" THEN "ctx"
    ELSE "nil"

\* listenForProgressLogs saw the end of stdout and cmd.Wait returned: the
\* process is reaped and the pipes are closed, a failure is logged with
\* stdErrLog.String() as it is now, Generate returns and the deferred wg.Done
\* runs
GenerateWait(r) ==
    /\ phase[r] = "running"
    /\ proc[r] \in {"exit0", "exit1", "killed"}
    /\ disableProgressLogs \/ listener[r].lines = Len(stdoutLines[r])
    /\ genErr' = [genErr EXCEPT ![r] = WaitErr(r)]
    /\ logged' = [logged EXCEPT ![r] =
                     IF WaitErr(r) = "nil" THEN NoLog
                     ELSE [msg |-> "ffmpeg run failed",
                           stderr |-> stdErrLog[r]]]
    /\ proc' = [proc EXCEPT ![r] = "none"]
    /\ stderrPipe' = [stderrPipe EXCEPT ![r] = <<>>]
    /\ wg' = wg - 1
    /\ phase' = [phase EXCEPT ![r] = AfterGenerate(kind[r])]
    /\ UNCHANGED <<poolCap, lastReqId, kind, caller, id, ctx, errWritten,
                   stdErrLog, doneChan, sent, handOrder, waitPc, waitSnap,
                   outputs, filtersStr, buildErr, direct,
                   genCmdArgs, disableProgressLogs, outputDst, cmdArgs, tune,
                   stdoutLines, listener, progressLog, scaleEq>>

\* ------------------------------------------------------------ handleRequest
\* a handleRequest that reports only the runs that succeeded
SendsResultOnSuccess(r) == kind[r] = "async" /\ genErr[r] = "nil"

\* if req.DoneChan != nil
SendsResult(r) == kind[r] = "async"

\* handleRequest after Generate: req.DoneChan <- &res when there is a channel
\* (the send waits for room in the channel), then the worker is free again
HandleRequestReturn(r) ==
    /\ phase[r] = "returned"
    /\ IF SendsResult(r)
       THEN /\ Len(doneChan) < ChanCap
            /\ doneChan' = Append(doneChan, r)
            /\ sent' = [sent EXCEPT ![r] = Append(@, genErr[r])]
       ELSE UNCHANGED <<doneChan, sent>>
    /\ phase' = [phase EXCEPT ![r] = "done"]
    /\ UNCHANGED <<poolCap, lastReqId, wg, kind, caller, id, ctx, proc, genErr,
                   errWritten, stderrPipe, stdErrLog, logged, handOrder, waitPc, waitSnap,
                   outputs, filtersStr, buildErr, direct,
                   genCmdArgs, disableProgressLogs, outputDst, cmdArgs, tune,
                   stdoutLines, listener, progressLog, scaleEq>>

\* the caller receives from the result channel
Receive ==
    /\ doneChan # <<>>
    /\ doneChan' = Tail(doneChan)
    /\ UNCHANGED <<poolCap, lastReqId, wg, phase, kind, caller, id, ctx, proc,
                   genErr, errWritten, stderrPipe, stdErrLog, logged, sent,
                   handOrder, waitPc, waitSnap,
                   outputs, filtersStr, buildErr, direct,
                   genCmdArgs, disableProgressLogs, outputDst, cmdArgs, tune,
                   stdoutLines, listener, progressLog, scaleEq>>

\* --------------------------------------------------------------------- Wait
\* the requests submitted so far: GenerateAsync returned nil for them, or
\* their synchronous Generate has started
Submitted ==
    {r \in Reqs : phase[r] \notin {"new", "invoke"}}

\* of these, the requests whose Generate has not returned yet
Unfinished == {r \in Submitted : ~GenerateFinished(r)}

\* a goroutine calls g.Wait()
WaitCall ==
    /\ waitPc = "idle"
    /\ waitPc' = "waiting"
    /\ waitSnap' = Unfinished
    /\ UNCHANGED <<poolCap, lastReqId, wg, phase, kind, caller, id, ctx, proc,
                   genErr, errWritten, stderrPipe, stdErrLog, logged, doneChan,
                   sent, handOrder,
                   outputs, filtersStr, buildErr, direct,
                   genCmdArgs, disableProgressLogs, outputDst, cmdArgs, tune,
                   stdoutLines, listener, progressLog, scaleEq>>

\* g.wg.Wait() returns when the counter is zero
WaitReturn ==
    /\ waitPc = "waiting"
    /\ wg = 0
    /\ waitPc' = "returned"
    /\ UNCHANGED <<poolCap, lastReqId, wg, phase, kind, caller, id, ctx, proc,
                   genErr, errWritten, stderrPipe, stdErrLog, logged, doneChan,
                   sent, handOrder, waitSnap,
                   outputs, filtersStr, buildErr, direct,
                   genCmdArgs, disableProgressLogs, outputDst, cmdArgs, tune,
                   stdoutLines, listener, progressLog, scaleEq>>

\* ------------------------------------------------------------ specification
CtxChoices == {"nil", "live", "done"}
StartOutcomes == {"ok", "pipe", "start"}

Next ==
    \/ \E c \in Callers, r \in 1..MaxCalls, hasChan \in BOOLEAN, ctx0 \in CtxChoices :
           GenerateAsync(c, r, hasChan, ctx0)
    \/ \E r \in Reqs : PoolInvoke(r)
    \/ \E c \in Callers, r \in 1..MaxCalls, ctx0 \in CtxChoices,
            outcome \in StartOutcomes :
           GenerateSync(c, r, ctx0, outcome)
    \/ \E r \in Reqs, outcome \in StartOutcomes : GenerateInWorker(r, outcome)
    \/ \E r \in Reqs, code \in {0, 1} : ProcExit(r, code)
    \/ \E r \in Reqs : Cancel(r)
    \/ \E r \in Reqs : GenerateWait(r)
    \/ \E r \in Reqs : HandleRequestReturn(r)
    \/ Receive
    \/ WaitCall
    \/ WaitReturn

Spec == Init /\ [][Next]_vars

\* the Generator with the fairness the Go scheduler gives: a goroutine that
\* can run does run.  Nothing makes a process exit by itself.
FairSpec ==
    /\ Spec
    /\ \A r \in Reqs :
          /\ WF_vars(\E outcome \in StartOutcomes : GenerateInWorker(r, outcome))
          /\ WF_vars(GenerateWait(r))
    /\ WF_vars(WaitReturn)

\* ------------------------------------------------------- one process session
\* synchronous calls only, with what the process writes to its standard error
NextSession ==
    \/ \E c \in Callers, r \in 1..MaxCalls, ctx0 \in CtxChoices,
            outcome \in StartOutcomes :
           GenerateSync(c, r, ctx0, outcome)
    \/ \E r \in Reqs : ProcWriteStderr(r)
    \/ \E r \in Reqs : StderrRead(r)
    \/ \E r \in Reqs, code \in {0, 1} : ProcExit(r, code)
    \/ \E r \in Reqs : Cancel(r)
    \/ \E r \in Reqs : GenerateWait(r)

SpecSession == Init /\ [][NextSession]_vars

\* ------------------------------------------------- examples/async/main.go
\* every request of the example went through GenerateAsync
AllSubmitted == \A r \in Reqs : phase[r] \notin {"new", "invoke"}

\* for _, req := range reqs { thumbsGen.GenerateAsync(&reqCopy) }: one
\* goroutine, every request with the shared doneChan and no Context
ExampleSubmit(r) == GenerateAsync(1, r, TRUE, "nil")

\* for reqDone := range doneChan, in the goroutine started after the loop
ExampleReceive == AllSubmitted /\ Receive

NextExample ==
    \/ \E r \in Reqs : ExampleSubmit(r)
    \/ \E r \in Reqs : PoolInvoke(r)
    \/ \E r \in Reqs, outcome \in StartOutcomes : GenerateInWorker(r, outcome)
    \/ \E r \in Reqs, code \in {0, 1} : ProcExit(r, code)
    \/ \E r \in Reqs : GenerateWait(r)
    \/ \E r \in Reqs : HandleRequestReturn(r)
    \/ ExampleReceive

SpecExample == Init /\ [][NextExample]_vars

\* ================================================================== claims

\* C1: Wait returns only after every request submitted before the Wait call
\* (GenerateAsync returned nil for it, or its synchronous Generate started)
\* has finished its Generate run.
C1_WaitCoversSubmitted ==
    waitPc = "returned" => \A r \in waitSnap : GenerateFinished(r)

\* C2: the number of ffmpeg processes running for one Generator is at most the
\* Generator's concurrency bound, for any mix of Generate and GenerateAsync.
C2_ProcessesWithinBound ==
    Cardinality({r \in Reqs : proc[r] = "running"}) <= poolCap

\* C3: for a request with a DoneChan that GenerateAsync accepted, the results
\* sent for it are never two, and once handleRequest is through with it there
\* is exactly one, carrying the error Generate returned (nil, a pipe or start
\* failure, a non-zero exit, a cancellation).
C3_ExactlyOneResult ==
    \A r \in Reqs :
        kind[r] = "async" =>
            /\ Len(sent[r]) <= 1
            /\ phase[r] = "done" => sent[r] = <<genErr[r]>> /\ genErr[r] # "unset"
            /\ Cardinality({i \in 1..Len(doneChan) : doneChan[i] = r}) <= Len(sent[r])

C3_Witness ==
    \E r \in Reqs :
        /\ kind[r] = "async" /\ phase[r] = "done"
        /\ ctx[r] = "done" /\ genErr[r] = "exit"
        /\ sent[r] = <<"exit">>

\* C5: GenerateAsync blocks its caller only while every worker of the pool is
\* occupied; it returns when a worker has taken the request, before the
\* request's process has even started; a request it returned nil for is run
\* by Generate before its handling ends.
C5_BlockedOnlyAtCapacity ==
    \A r \in Reqs :
        /\ phase[r] = "invoke" /\ ~ENABLED PoolInvoke(r) => Running >= poolCap
        /\ phase[r] = "invoke" /\ ENABLED PoolInvoke(r) => Running < poolCap
        /\ IsAsync(r) /\ phase[r] \in {"invoke", "handed"} =>
               proc[r] = "none" /\ genErr[r] = "unset"
        /\ IsAsync(r) /\ phase[r] \in {"returned", "done"} => genErr[r] # "unset"

C5_Witness ==
    \E r, q \in Reqs :
        /\ phase[r] = "invoke" /\ Running = poolCap
        /\ IsAsync(q) /\ phase[q] = "running" /\ proc[q] = "running"

\* the request that took id i
ReqOfId(i) == CHOOSE r \in Reqs : id[r] = i

HasId(r) == IsAsync(r)

\* C6 as claimed: ids are pairwise distinct, start at 1, and the request handed
\* to the pool earlier always has the smaller id.
C6_IdsFollowHandOrder ==
    /\ \A r, q \in Reqs : HasId(r) /\ HasId(q) /\ r # q => id[r] # id[q]
    /\ {id[r] : r \in {q \in Reqs : HasId(q)}} = 1..lastReqId
    /\ \A i, j \in 1..Len(handOrder) : i < j => handOrder[i] < handOrder[j]

\* C6 amended: ids are pairwise distinct, are 1, 2, ... without a gap in the
\* order in which the calls of GenerateAsync took them, and the requests one
\* goroutine passes in one after another are handed to the pool in the order
\* of their ids.
C6_IdsDistinctAndSequential ==
    /\ \A r, q \in Reqs : HasId(r) /\ HasId(q) /\ r # q => id[r] # id[q]
    /\ {id[r] : r \in {q \in Reqs : HasId(q)}} = 1..lastReqId
    /\ \A r, q \in Reqs : HasId(r) /\ HasId(q) /\ r < q => id[r] < id[q]
    /\ \A i, j \in 1..Len(handOrder) :
           i < j /\ caller[ReqOfId(handOrder[i])] = caller[ReqOfId(handOrder[j])]
               => handOrder[i] < handOrder[j]

\* two goroutines: the request with id 2 is handed to the pool first
C6_Witness == Len(handOrder) >= 2 /\ handOrder[1] = 2 /\ handOrder[2] = 1

\* a worker or a caller runs Generate for r and r's Context is done
CancelledInFlight(r) == ctx[r] = "done" /\ phase[r] \in {"handed", "running"}

\* C7: a request whose Context is cancelled while it is in flight completes
\* with a non-nil error and leaves the WaitGroup; a Wait held up by cancelled
\* requests alone returns (unless requests that are not cancelled join them).
C7_CancelledCompletes ==
    /\ \A r \in Reqs :
           CancelledInFlight(r) ~>
               (GenerateFinished(r) /\ genErr[r] \notin {"unset", "nil"})
    /\ (waitPc = "waiting" /\ \A r \in Unfinished : ctx[r] = "done") ~>
           (waitPc = "returned" \/ \E r \in Unfinished : ctx[r] # "done")

C7_Witness ==
    \E r \in Reqs :
        /\ proc[r] = "killed" /\ phase[r] = "running"
        /\ waitPc = "waiting" /\ r \in waitSnap

\* C8: every failure of a request reaches the caller as the request's result:
\* returned by a synchronous Generate, or sent on the result channel of a
\* request passed to GenerateAsync, with or without a DoneChan.
C8_FailureReachesCaller ==
    \A r \in Reqs :
        phase[r] = "done" /\ genErr[r] \notin {"unset", "nil"} =>
            kind[r] = "sync" \/ sent[r] = <<genErr[r]>>

\* C9: when the process exits non-zero, the failure report carries everything
\* the process wrote to its standard error.
C9_StderrComplete ==
    \A r \in Reqs :
        logged[r].msg = "ffmpeg run failed" => logged[r].stderr = errWritten[r]

\* every request of the example has had its result sent
ExampleDone == \A r \in Reqs : phase[r] = "done"

\* C4: in the async example's pattern with more requests than workers, no
\* GenerateAsync fails, every request is admitted and every request produces
\* its result: the run never stops short of that.
C4_ExampleNeverStuck == ExampleDone \/ ENABLED NextExample


\* ------------------------------------------------------------- SpecCompile
\* NewGenerator on a list of outputs a caller wrote
MaxOutputs == 3

OutputTypes == {OutputTypeThumbs, OutputTypeSprites}
IntervalChoices == {0, 1500, 6500}
ScaleChoices ==
    {[Width |-> 320, Height |-> 180, Behavior |-> ScaleBehaviorFillToKeepAspectRatio],
     [Width |-> 320, Height |-> 180, Behavior |-> ScaleBehaviorCropToFit],
     [Width |-> 640, Height |-> 360, Behavior |-> ScaleBehaviorNone],
     [Width |-> -1, Height |-> 180, Behavior |-> ScaleBehaviorNone]}

OutputChoices ==
    {OutputConfig(t, iv, sc) :
         t \in OutputTypes, iv \in IntervalChoices, sc \in ScaleChoices}

OutputLists == UNION {[1..n -> OutputChoices] : n \in 0..MaxOutputs}

InitCompile ==
    /\ EmptyGenerator(0)
    /\ outputs \in OutputLists
    /\ filtersStr = <<>>
    /\ buildErr = "unbuilt"
    /\ direct = NoCall
    /\ scaleEq = NoEq
    /\ genCmdArgs = <<>>
    /\ disableProgressLogs = FALSE
    /\ outputDst = [r \in Reqs |-> NoHeaders]
    /\ tune = Supplied(0)

\* NewGenerator(cfg): the outputs take their idx, the graph is compiled, and
\* on success the pool is made
NewGenerator(concurrency, headers, order, hashOrder) ==
    /\ buildErr = "unbuilt"
    /\ genCmdArgs' = GlobalArgs(headers)
    /\ tune' = Supplied(concurrency)
    /\ LET built == BuildComplexFilters(WithIdx(outputs), order, hashOrder)
       IN  /\ outputs' = built.outputs
           /\ filtersStr' = built.str
           /\ buildErr' = built.err
           /\ poolCap' = IF built.err = "nil"
                         THEN EffectiveConcurrency(concurrency) ELSE 0
    /\ UNCHANGED <<lastReqId, wg, phase, kind, caller, id, ctx, proc, genErr,
                   errWritten, stderrPipe, stdErrLog, logged, doneChan, sent,
                   handOrder, waitPc, waitSnap, direct, disableProgressLogs,
                   outputDst, cmdArgs,
                   stdoutLines, listener, progressLog, scaleEq>>

\* a caller passes the list to the exported BuildComplexFilters: the call
\* returns the graph or the error and leaves the node names in the outputs
BuildComplexFiltersCall(order, hashOrder) ==
    /\ LET built == BuildComplexFilters(outputs, order, hashOrder)
       IN  /\ direct' = [outputs |-> outputs, str |-> built.str,
                         err |-> built.err]
           /\ outputs' = built.outputs
    /\ UNCHANGED <<poolCap, lastReqId, wg, phase, kind, caller, id, ctx, proc,
                   genErr, errWritten, stderrPipe, stdErrLog, logged, doneChan,
                   sent, handOrder, waitPc, waitSnap, filtersStr, buildErr,
                   genCmdArgs, disableProgressLogs, outputDst, cmdArgs, tune,
                   stdoutLines, listener, progressLog, scaleEq>>

NextCompile ==
    \/ \E concurrency \in 0..MaxConcurrency, headers \in HeaderChoices,
          order \in GroupOrders(outputs), hashOrder \in HashOrders(outputs) :
           NewGenerator(concurrency, headers, order, hashOrder)
    \/ \E order \in GroupOrders(outputs), hashOrder \in HashOrders(outputs) :
           BuildComplexFiltersCall(order, hashOrder)

SpecCompile == InitCompile /\ [][NextCompile]_vars

\* the statements of a graph: the runs of tokens between the ";"
GraphStatements(g) ==
    LET seps == {i \in 1..Len(g) : g[i] = ";"}
        starts == {1} \cup {i + 1 : i \in seps}
        stop(a) == IF \E i \in seps : i >= a
                   THEN (CHOOSE i \in seps : i >= a /\ \A j \in seps : j >= a => i <= j) - 1
                   ELSE Len(g)
    IN  {SubSeq(g, a, stop(a)) : a \in starts}

\* the statements that end in the label name
StatementsInto(g, name) ==
    {s \in GraphStatements(g) :
        \E k \in 5..Len(s) - 1 : s[k - 1] = "[" /\ s[k] = name /\ s[k + 1] = "]"}

\* the statements reading [0:v] from which the label name is reached
StagesFeeding(g, name) ==
    UNION {IF s[2] = "0:v" THEN {s} ELSE StatementsInto(g, s[2]) :
               s \in StatementsInto(g, name)}

\* the scale directive of a statement, with what belongs to it
ScaleDirective(s) ==
    LET at == {i \in 1..Len(s) : s[i] = "scale="}
        a == CHOOSE i \in at : \A j \in at : i <= j
        after == {p \in a + 1..Len(s) :
                     \/ s[p] = "["
                     \/ s[p] = "," /\ p < Len(s) /\ s[p + 1] \in {"split=", "tile="}}
        e == IF after = {} THEN Len(s)
             ELSE (CHOOSE p \in after : \A q \in after : p <= q) - 1
    IN  IF at = {} THEN <<>> ELSE SubSeq(s, a, e)

FedByOwnScale(o) ==
    /\ StagesFeeding(filtersStr, o.outName) # {}
    /\ \A s \in StagesFeeding(filtersStr, o.outName) :
           ScaleDirective(s) = buildScaleArg(o.Scale)

\* C10: in a compiled graph, two outputs of the same sampling interval whose
\* scale configurations differ are fed by different selection+scale stages,
\* each by the scale directive built from its own width, height and behavior.
C10_OwnScalePerConfig ==
    buildErr = "nil" =>
        \A i, j \in 1..Len(outputs) :
            (/\ outputs[i].SnapshotInterval = outputs[j].SnapshotInterval
             /\ outputs[i].Scale # outputs[j].Scale)
            => /\ FedByOwnScale(outputs[i])
               /\ FedByOwnScale(outputs[j])
               /\ StagesFeeding(filtersStr, outputs[i].outName)
                      \cap StagesFeeding(filtersStr, outputs[j].outName) = {}


\* the outputs of a list that have the sampling interval iv
OutputsOfInterval(outs, iv) ==
    {i \in 1..Len(outs) : outs[i].SnapshotInterval = iv}

\* the statements of a graph that select frames at the interval iv
SelectStages(g, iv) ==
    {s \in GraphStatements(g) :
        Len(s) >= 5 /\ s[2] = "0:v" /\ s[5] = FormatSeconds(iv)}

\* how many times the token t stands in the statement s
CountToken(s, t) == Cardinality({k \in 1..Len(s) : s[k] = t})

\* the positions of the labels a statement ends in: those after its first
SinkLabelAt(s) ==
    {k \in 5..Len(s) - 1 : s[k - 1] = "[" /\ s[k + 1] = "]"}

\* the label an output takes its frames from in the fan-out
BranchLabel(o) == IF o.Type = OutputTypeSprites THEN o.inName ELSE o.outName

WithoutNames(outs) ==
    [i \in 1..Len(outs) |-> [outs[i] EXCEPT !.inName = "", !.outName = ""]]

\* the caller's last call of BuildComplexFilters was given the list the
\* Generator was made of, and both compiled it
CompiledTwice ==
    /\ buildErr = "nil"
    /\ direct.err = "nil"
    /\ WithoutNames(direct.outputs) = WithoutNames(outputs)

\* C12: two runs of BuildComplexFilters on the same unmodified valid list
\* return the same graph string and leave the same node names in every output.
C12_CompilationDeterministic ==
    CompiledTwice =>
        /\ direct.str = filtersStr
        /\ \A i \in 1..Len(outputs) :
               /\ outputs[i].outName = WithNames(direct.outputs[i]).outName
               /\ outputs[i].inName = WithNames(direct.outputs[i]).inName


\* ------------------------------------------------------------ SpecValidate
\* BuildComplexFilters on lists that break the rules of validateOutputs
MaxValidated == 2

QualityChoices == {-1, 0, 1, 31, 32}
ValidatedIntervals == {0, 1}
WidthChoices == {-1, 0, 320}
HeightChoices == {-2, -1, 0, 180}
ValidatedTypes == {OutputTypeThumbs, OutputTypeSprites, 2}
ValidatedBehaviors == {ScaleBehaviorNone, 3}
DimensionChoices == {0, 1}

\* every combination of the values above
ValidatedOutputs ==
    {[OutputConfig(t, iv, [Width |-> w, Height |-> h, Behavior |-> b])
         EXCEPT !.Sprites = [Columns |-> c, Rows |-> r], !.Quality = q] :
        t \in ValidatedTypes, iv \in ValidatedIntervals, w \in WidthChoices,
        h \in HeightChoices, b \in ValidatedBehaviors, c \in DimensionChoices,
        r \in DimensionChoices, q \in QualityChoices}

\* a valid Sprite output
GoodOutput ==
    [OutputConfig(OutputTypeSprites, 1,
                  [Width |-> 320, Height |-> 180, Behavior |-> ScaleBehaviorNone])
        EXCEPT !.Sprites = [Columns |-> 1, Rows |-> 1], !.Quality = 31]

\* the valid output, and outputs that break one rule each
SampleOutputs ==
    {GoodOutput,
     [GoodOutput EXCEPT !.Quality = 32],
     [GoodOutput EXCEPT !.SnapshotInterval = 0],
     [GoodOutput EXCEPT !.Scale.Width = -1, !.Scale.Height = -1],
     [GoodOutput EXCEPT !.Scale.Width = 0],
     [GoodOutput EXCEPT !.Scale.Height = 0],
     [GoodOutput EXCEPT !.Sprites.Rows = 0],
     [GoodOutput EXCEPT !.Sprites.Columns = 0],
     [GoodOutput EXCEPT !.Type = 2],
     [GoodOutput EXCEPT !.Scale.Behavior = 3]}

\* a list of n outputs with the output o in place k and sample outputs in the
\* other places
ValidatedList(n, k, o, rest) == [i \in 1..n |-> IF i = k THEN o ELSE rest[i]]

InitValidate ==
    /\ EmptyGenerator(0)
    /\ \/ outputs = <<>>
       \/ \E n \in 1..MaxValidated :
           \E k \in 1..n, o \in ValidatedOutputs :
           \E rest \in [(1..n) \ {k} -> SampleOutputs] :
               outputs = ValidatedList(n, k, o, rest)
    /\ filtersStr = <<>>
    /\ buildErr = "unbuilt"
    /\ direct = NoCall
    /\ scaleEq = NoEq
    /\ genCmdArgs = <<>>
    /\ disableProgressLogs = FALSE
    /\ outputDst = [r \in Reqs |-> NoHeaders]
    /\ tune = Supplied(0)

NextValidate ==
    \E order \in GroupOrders(outputs), hashOrder \in HashOrders(outputs) :
        BuildComplexFiltersCall(order, hashOrder)

SpecValidate == InitValidate /\ [][NextValidate]_vars

\* the rules of the validator in the order of their priority
RuleBroken(k, o) ==
    CASE k = 1 -> o.Quality # 0 /\ o.Quality \notin 1..31
      [] k = 2 -> o.SnapshotInterval < 1
      [] k = 3 -> o.Scale.Width < 0 /\ o.Scale.Height < 0
      [] k = 4 -> o.Scale.Width = 0
      [] k = 5 -> o.Scale.Height = 0
      [] k = 6 -> o.Type = OutputTypeSprites /\ o.Sprites.Rows < 1
      [] k = 7 -> o.Type = OutputTypeSprites /\ o.Sprites.Columns < 1
      [] k = 8 -> o.Type \notin {OutputTypeThumbs, OutputTypeSprites}
      [] k = 9 -> o.Scale.Behavior \notin {ScaleBehaviorNone,
                                           ScaleBehaviorFillToKeepAspectRatio,
                                           ScaleBehaviorCropToFit}

RuleFailure ==
    <<"Quality", "SnapshotInterval", "Scale", "Scale", "Scale", "SpiteDims",
      "SpiteDims", "OutputType", "ScaleBehavior">>

BrokenRules(o) == {k \in 1..9 : RuleBroken(k, o)}

LeastOf(S) == CHOOSE x \in S : \A y \in S : x <= y

\* the failure 'first violation wins' gives for a list
FirstViolation(outs) ==
    LET bad == {i \in 1..Len(outs) : BrokenRules(outs[i]) # {}}
    IN  IF Len(outs) = 0 THEN "NoOutputs"
        ELSE IF bad = {} THEN "nil"
        ELSE RuleFailure[LeastOf(BrokenRules(outs[LeastOf(bad)]))]

\* C13: the validator returns nil for a valid list, NoOutputs for the empty
\* list, and otherwise the failure of the first violated rule, in the order of
\* the rules, of the first output in list order that violates any rule.
C13_FirstViolationWins ==
    direct.err # "none" => direct.err = FirstViolation(direct.outputs)

\* a list was validated whose two outputs break different rules, the first of
\* them two rules at once
C13_Witness ==
    /\ direct.err # "none"
    /\ Len(direct.outputs) = 2
    /\ Cardinality(BrokenRules(direct.outputs[1])) >= 2
    /\ BrokenRules(direct.outputs[2]) # {}
    /\ LeastOf(BrokenRules(direct.outputs[2])) < LeastOf(BrokenRules(direct.outputs[1]))

\* a width or height that is neither positive nor -1
BadDimension(n) == n <= 0 /\ n # -1

\* C14: an output whose width or height is 0 or a negative value other than -1,
\* or whose width and height are both -1, never passes validation: a list
\* holding such an output is not accepted.
C14_ScaleOnlyPositiveOrMinusOne ==
    direct.err = "nil" =>
        \A i \in 1..Len(direct.outputs) :
            /\ ~BadDimension(direct.outputs[i].Scale.Width)
            /\ ~BadDimension(direct.outputs[i].Scale.Height)
            /\ ~(direct.outputs[i].Scale.Width = -1 /\ direct.outputs[i].Scale.Height = -1)


\* the positions in a graph of the labels that are written by a statement:
\* every label but the one a statement begins with
WrittenLabelAt(g) ==
    {k \in 2..Len(g) - 1 :
        /\ g[k - 1] = "[" /\ g[k + 1] = "]"
        /\ k > 2 /\ g[k - 2] # ";"}

LabelsDistinct(g) ==
    \A k1, k2 \in WrittenLabelAt(g) : k1 # k2 => g[k1] # g[k2]

\* <kindPrefix>-<position in the list>-out
TerminalLabel(type, position) ==
    (IF type = OutputTypeSprites THEN "sprites-" ELSE "thumbs-") \o
    ToString(position) \o "-out"

\* the graph g and the outputs as its compilation named them
NamedByPosition(g, outs) ==
    /\ LabelsDistinct(g)
    /\ \A i \in 1..Len(outs) :
           /\ outs[i].outName = TerminalLabel(outs[i].Type, i - 1)
           /\ \E k \in WrittenLabelAt(g) : g[k] = outs[i].outName

\* C15: in every graph compiled from a valid list, through NewGenerator or by
\* a call of BuildComplexFilters, each output's terminal label is
\* <kindPrefix>-<position of the output in the list>-out and the labels of the
\* graph are pairwise distinct.
C15_LabelsByPositionDistinct ==
    /\ buildErr = "nil" => NamedByPosition(filtersStr, outputs)
    /\ direct.err = "nil" =>
           NamedByPosition(direct.str,
               [i \in 1..Len(direct.outputs) |-> WithNames(direct.outputs[i])])

\* C16: a compiled graph never begins or ends with ";" and never has two ";"
\* next to each other.
C16_StatementsWellSeparated ==
    buildErr = "nil" =>
        /\ filtersStr[1] # ";"
        /\ filtersStr[Len(filtersStr)] # ";"
        /\ \A k \in 1..Len(filtersStr) - 1 :
               ~(filtersStr[k] = ";" /\ filtersStr[k + 1] = ";")


\* ---------------------------------------------------------------- SpecArgs
\* one request to a Generator made of outputs that differ in kind, Quality and
\* DstPath, with and without headers, progress logs and OutputDst entries
MaxArgOutputs == 2

ArgOutputs ==
    {[OutputConfig(t, 6500, [Width |-> 320, Height |-> 180,
                             Behavior |-> ScaleBehaviorNone])
         EXCEPT !.Quality = q, !.DstPath = d] :
        t \in OutputTypes, q \in {0, 5}, d \in {"", "out/%d.jpg"}}

ArgLists == UNION {[1..n -> ArgOutputs] : n \in 1..MaxArgOutputs}

\* req.OutputDst: no entry, an entry for the first output, for the second, for
\* both
OutputDstChoices ==
    {[idx \in idxs |-> "req/" \o ToString(idx) \o ".jpg"] : idxs \in SUBSET {0, 1}}

\* the state after NewGenerator(cfg) for such a cfg, with the request's
\* OutputDst
InitArgs ==
    /\ EmptyGenerator(EffectiveConcurrency(0))
    /\ tune = Supplied(0)
    /\ \E outs \in ArgLists :
       \E order \in GroupOrders(outs), hashOrder \in HashOrders(outs) :
           LET built == BuildComplexFilters(WithIdx(outs), order, hashOrder)
           IN  /\ outputs = built.outputs
               /\ filtersStr = built.str
               /\ buildErr = built.err
    /\ direct = NoCall
    /\ scaleEq = NoEq
    /\ \E headers \in HeaderChoices : genCmdArgs = GlobalArgs(headers)
    /\ disableProgressLogs \in BOOLEAN
    /\ \E dst \in OutputDstChoices :
           outputDst = [r \in Reqs |-> IF r = 1 THEN dst ELSE NoHeaders]

NextArgs ==
    \/ \E outcome \in StartOutcomes : GenerateSync(1, 1, "nil", outcome)
    \/ \E hasChan \in BOOLEAN : GenerateAsync(1, 1, hasChan, "nil")
    \/ PoolInvoke(1)
    \/ \E outcome \in StartOutcomes : GenerateInWorker(1, outcome)
    \/ \E code \in {0, 1} : ProcExit(1, code)
    \/ GenerateWait(1)
    \/ HandleRequestReturn(1)
    \/ Receive

SpecArgs == InitArgs /\ [][NextArgs]_vars

\* the arguments that belong to the output at place i of the list, for the
\* request r
OutputArgs(r, i) ==
    LET o == outputs[i]
    IN  <<"-map", "[" \o TerminalLabel(o.Type, i - 1) \o "]">> \o
        (IF o.Quality > 0 THEN <<"-q:v", ToString(o.Quality)>> ELSE <<>>) \o
        <<IF (i - 1) \in DOMAIN outputDst[r] THEN outputDst[r][i - 1]
          ELSE o.DstPath>>

RECURSIVE OutputArgsFrom(_, _)
OutputArgsFrom(r, i) ==
    IF i > Len(outputs) THEN <<>> ELSE OutputArgs(r, i) \o OutputArgsFrom(r, i + 1)

\* Generate has built the command of request r
Launched(r) == cmdArgs[r] # <<>>

\* C17: the argument list Generate builds for a request is the global flags,
\* -i <source>, -filter_complex <graph>, -vsync 0, then for each output in
\* configuration order -map [<its terminal label, a label of the graph>],
\* -q:v <quality> if and only if quality > 0, and the destination (the
\* request's OutputDst entry for the output's index when there is one, else
\* the output's DstPath, which is never empty), and at the end -progress pipe:1
\* if and only if progress logs are not disabled.
C17_LaunchArguments ==
    \A r \in Reqs :
        Launched(r) =>
            /\ cmdArgs[r] =
                   genCmdArgs \o
                   <<"-i", MediaURL(r), "-filter_complex", JoinTokens(filtersStr),
                     "-vsync", "0">> \o
                   OutputArgsFrom(r, 1) \o
                   (IF disableProgressLogs THEN <<>> ELSE <<"-progress", "pipe:1">>)
            /\ \A i \in 1..Len(outputs) :
                   /\ \E k \in WrittenLabelAt(filtersStr) :
                          filtersStr[k] = TerminalLabel(outputs[i].Type, i - 1)
                   /\ outputs[i].DstPath # ""
            /\ SubSeq(genCmdArgs, 1, 2) = <<"-loglevel", "error">>

\* a command was built for two outputs, one with a Quality and an OutputDst
\* entry, the other with neither and with the default DstPath, progress logs
\* disabled
C17_Witness ==
    /\ Launched(1)
    /\ Len(outputs) = 2
    /\ disableProgressLogs
    /\ outputs[1].Quality > 0 /\ 0 \in DOMAIN outputDst[1]
    /\ outputs[2].Quality = 0 /\ 1 \notin DOMAIN outputDst[1]
    /\ outputs[2].DstPath = DefaultFilename
    /\ Len(genCmdArgs) = 4


\* ---------------------------------------------------------------- SpecTune
\* GenerateAsync with a DoneChan that is being received from, and
\* SetConcurrency at any moment
MaxTunes == 2

\* a Tune that can only make the pool larger
TuneGrowOnly(cap, size) == IF size > cap THEN size ELSE cap

\* pool.Tune(size) of the ants pool: the capacity becomes size; a size that is
\* not positive, or the capacity the pool has, changes nothing
Tune(cap, size) == IF size <= 0 \/ size = cap THEN cap ELSE size

\* SetConcurrency(newConcurrency)
SetConcurrency(newConcurrency) ==
    /\ tune.calls < MaxTunes
    /\ poolCap' = Tune(poolCap, IF newConcurrency < 0 THEN 2 ELSE newConcurrency)
    /\ tune' = [supplied |-> newConcurrency,
                inFlight |-> {r \in Reqs : HoldsWorker(r)},
                calls |-> tune.calls + 1]
    /\ UNCHANGED <<lastReqId, wg, phase, kind, caller, id, ctx, proc, genErr,
                   errWritten, stderrPipe, stdErrLog, logged, doneChan, sent,
                   handOrder, waitPc, waitSnap, outputs, filtersStr, buildErr,
                   direct, genCmdArgs, disableProgressLogs, outputDst, cmdArgs,
                   stdoutLines, listener, progressLog, scaleEq>>

\* GetConcurrency()
GetConcurrency == poolCap

NextTune ==
    \/ \E r \in Reqs : GenerateAsync(1, r, TRUE, "nil")
    \/ \E r \in Reqs : PoolInvoke(r)
    \/ \E r \in Reqs, outcome \in StartOutcomes : GenerateInWorker(r, outcome)
    \/ \E r \in Reqs, code \in {0, 1} : ProcExit(r, code)
    \/ \E r \in Reqs : GenerateWait(r)
    \/ \E r \in Reqs : HandleRequestReturn(r)
    \/ Receive
    \/ \E newConcurrency \in -1..MaxConcurrency : SetConcurrency(newConcurrency)

\* the workers and the receiver of DoneChan keep running, and every ffmpeg
\* process ends
SpecTune ==
    /\ Init
    /\ [][NextTune]_vars
    /\ \A r \in Reqs :
           /\ WF_vars(\E outcome \in StartOutcomes : GenerateInWorker(r, outcome))
           /\ WF_vars(\E code \in {0, 1} : ProcExit(r, code))
           /\ WF_vars(GenerateWait(r))
           /\ WF_vars(HandleRequestReturn(r))
    /\ WF_vars(Receive)

\* C18: after a concurrency that is not positive was supplied, in the Config
\* or to SetConcurrency (0 included), GetConcurrency reports 2.
C18_NonPositiveGivesTwo ==
    tune.supplied <= 0 => GetConcurrency = 2

\* the requests that held a worker at the last SetConcurrency have left it
OldRequestsFinished == \A r \in tune.inFlight : ~HoldsWorker(r)

C19_Undisturbed ==
    /\ \A r \in Reqs :
           /\ Len(sent[r]) <= 1
           /\ phase[r] = "done" => sent[r] = <<genErr[r]>>
    /\ (tune.calls > 0 /\ tune.supplied > 0) =>
           /\ GetConcurrency = tune.supplied
           /\ OldRequestsFinished => Running <= tune.supplied

C20_WaitCoversResults ==
    waitPc = "returned" =>
        \A r \in waitSnap : kind[r] = "async" => Len(sent[r]) = 1


\* ------------------------------------------- the equality helpers (config)
ScaleWidths == {-1, 320, 640}
ScaleHeights == {-1, 180}
ScaleBehaviors == {ScaleBehaviorNone, ScaleBehaviorFillToKeepAspectRatio,
                   ScaleBehaviorCropToFit}

\* the pointers a caller can pass: nil, or a pointer to a ScaleConfig
ScalePointers ==
    {NilScale} \cup
    {<<[Width |-> w, Height |-> h, Behavior |-> b]>> :
        w \in ScaleWidths, h \in ScaleHeights, b \in ScaleBehaviors}

\* IsSameScaleConfig(c1, c2): true for two nil pointers, false as soon as one
\* of the two is not nil; the comparison of the fields comes after both tests
IsSameScaleConfig(c1, c2) ==
    IF c1 = NilScale /\ c2 = NilScale THEN TRUE
    ELSE IF c1 # NilScale \/ c2 # NilScale THEN FALSE
    ELSE /\ c1[1].Width = c2[1].Width
         /\ c1[1].Height = c2[1].Height
         /\ c1[1].Behavior = c2[1].Behavior

\* func (c *ScaleConfig) Eq(cfg *ScaleConfig) bool
Eq(c, cfg) == IsSameScaleConfig(c, cfg)

\* no Generator, and a caller holding two pointers
InitEq ==
    /\ EmptyGenerator(0)
    /\ outputs = <<>>
    /\ filtersStr = <<>>
    /\ buildErr = "unbuilt"
    /\ direct = NoCall
    /\ genCmdArgs = <<>>
    /\ disableProgressLogs = FALSE
    /\ outputDst = [r \in Reqs |-> NoHeaders]
    /\ tune = Supplied(0)
    /\ \E c1 \in ScalePointers, c2 \in ScalePointers :
           scaleEq = [fn |-> "none", c1 |-> c1, c2 |-> c2, res |-> FALSE]

\* the caller calls IsSameScaleConfig(c1, c2)
IsSameScaleConfigCall ==
    /\ scaleEq.fn = "none"
    /\ scaleEq' = [scaleEq EXCEPT !.fn = "IsSameScaleConfig",
                                  !.res = IsSameScaleConfig(scaleEq.c1,
                                                            scaleEq.c2)]
    /\ UNCHANGED <<poolCap, lastReqId, wg, phase, kind, caller, id, ctx, proc,
                   genErr, errWritten, stderrPipe, stdErrLog, logged, doneChan,
                   sent, handOrder, waitPc, waitSnap, outputs, filtersStr,
                   buildErr, direct, genCmdArgs, disableProgressLogs,
                   outputDst, cmdArgs, tune, stdoutLines, listener,
                   progressLog>>

\* the caller calls c1.Eq(c2)
EqCall ==
    /\ scaleEq.fn = "none"
    /\ scaleEq' = [scaleEq EXCEPT !.fn = "Eq",
                                  !.res = Eq(scaleEq.c1, scaleEq.c2)]
    /\ UNCHANGED <<poolCap, lastReqId, wg, phase, kind, caller, id, ctx, proc,
                   genErr, errWritten, stderrPipe, stdErrLog, logged, doneChan,
                   sent, handOrder, waitPc, waitSnap, outputs, filtersStr,
                   buildErr, direct, genCmdArgs, disableProgressLogs,
                   outputDst, cmdArgs, tune, stdoutLines, listener,
                   progressLog>>

NextEq ==
    \/ IsSameScaleConfigCall
    \/ EqCall

SpecEq == InitEq /\ [][NextEq]_vars

\* C21: IsSameScaleConfig and ScaleConfig.Eq return true exactly when both
\* pointers are nil or both point to configurations with equal Width, Height
\* and Behavior, and false otherwise (so a configuration equals itself).
C21_EqDecidesEquality ==
    scaleEq.fn # "none" => (scaleEq.res <=> scaleEq.c1 = scaleEq.c2)


\* ------------------------------------------------- listenForProgressLogs
MaxStdoutLines == 3

\* A line of stdout is told by what the three patterns find in it: the first
\* submatch of progress=([\w.]+), of out_time=([^ ]+) and of speed=([^ ]+),
\* "" where the pattern does not match.
ProgressTokens == {"", "continue", "end"}
OutTimeTokens == {"", "00:00:01", "00:00:02"}
SpeedTokens == {"", "1.5x"}

StdoutLineChoices ==
    [progress : ProgressTokens, out_time : OutTimeTokens, speed : SpeedTokens]

\* the part of a request's stdout that scanner.Scan() has still to return
Unscanned(r) ==
    SubSeq(stdoutLines[r], listener[r].lines + 1, Len(stdoutLines[r]))

\* progressChanged is set only by a progress value that is not the one held
EmitsEventOnChange(st, line) ==
    line.progress # "" /\ line.progress # st.progress

\* progressChanged at the test of the loop body: false when the body starts,
\* set when progressPattern matches the line
EmitsEvent(st, line) == line.progress # ""

\* progress, currTime and speed after the three matches of one loop body
ListenerAfter(st, line) ==
    [progress |-> IF line.progress # "" THEN line.progress ELSE st.progress,
     currTime |-> IF line.out_time # "" THEN line.out_time ELSE st.currTime,
     speed |-> IF line.speed # "" THEN line.speed ELSE st.speed,
     lines |-> st.lines + 1]

\* the attributes of the "Progress update" record
ProgressUpdate(st) ==
    [progress |-> st.progress, time |-> st.currTime, speed |-> st.speed]

\* the process writes one more line to its standard output
ProcWriteStdout(r, line) ==
    /\ proc[r] = "running"
    /\ Len(stdoutLines[r]) < MaxStdoutLines
    /\ stdoutLines' = [stdoutLines EXCEPT ![r] = Append(@, line)]
    /\ UNCHANGED <<poolCap, lastReqId, wg, phase, kind, caller, id, ctx, proc,
                   genErr, errWritten, stderrPipe, stdErrLog, logged, doneChan,
                   sent, handOrder, waitPc, waitSnap, outputs, filtersStr,
                   buildErr, direct, genCmdArgs, disableProgressLogs,
                   outputDst, cmdArgs, tune, listener, progressLog, scaleEq>>

\* one turn of for scanner.Scan() { ... } in listenForProgressLogs, which
\* Generate calls after cmd.Start when progress logs are not disabled
ListenScan(r) ==
    /\ phase[r] = "running"
    /\ ~disableProgressLogs
    /\ Unscanned(r) # <<>>
    /\ LET line == Head(Unscanned(r))
           st == ListenerAfter(listener[r], line)
       IN  /\ listener' = [listener EXCEPT ![r] = st]
           /\ progressLog' =
                  [progressLog EXCEPT ![r] =
                      IF EmitsEvent(listener[r], line)
                      THEN Append(@, ProgressUpdate(st)) ELSE @]
    /\ UNCHANGED <<poolCap, lastReqId, wg, phase, kind, caller, id, ctx, proc,
                   genErr, errWritten, stderrPipe, stdErrLog, logged, doneChan,
                   sent, handOrder, waitPc, waitSnap, outputs, filtersStr,
                   buildErr, direct, genCmdArgs, disableProgressLogs,
                   outputDst, cmdArgs, tune, stdoutLines, scaleEq>>

\* the Generator of examples/async, with DisableProgressLogs set or not
InitProgress ==
    /\ EmptyGenerator(EffectiveConcurrency(0))
    /\ tune = Supplied(0)
    /\ genCmdArgs = GlobalArgs(NoHeaders)
    /\ disableProgressLogs \in BOOLEAN
    /\ outputDst = ExampleOutputDst
    /\ \E order \in GroupOrders(ExampleOutputs),
          hashOrder \in HashOrders(ExampleOutputs) :
           LET built == BuildComplexFilters(WithIdx(ExampleOutputs),
                                            order, hashOrder)
           IN  /\ outputs = built.outputs
               /\ filtersStr = built.str
               /\ buildErr = built.err
    /\ direct = NoCall
    /\ scaleEq = NoEq

\* one synchronous Generate and what its process writes to its stdout
NextProgress ==
    \/ \E outcome \in StartOutcomes : GenerateSync(1, 1, "nil", outcome)
    \/ \E r \in Reqs, line \in StdoutLineChoices : ProcWriteStdout(r, line)
    \/ \E r \in Reqs : ListenScan(r)
    \/ \E r \in Reqs, code \in {0, 1} : ProcExit(r, code)
    \/ \E r \in Reqs : GenerateWait(r)

SpecProgress == InitProgress /\ [][NextProgress]_vars

\* the most recent token of one pattern on the first n lines, "" when no
\* line of them carries one
RECURSIVE LastToken(_, _, _)
LastToken(lines, n, pattern) ==
    IF n = 0 THEN ""
    ELSE IF lines[n][pattern] # "" THEN lines[n][pattern]
    ELSE LastToken(lines, n - 1, pattern)

\* the scanner of request r returns one more line in this step
ScansLine(r) == listener'[r].lines = listener[r].lines + 1

\* the event of the n-th line of request r
EventOfLine(r, n) ==
    [progress |-> stdoutLines[r][n].progress,
     time |-> LastToken(stdoutLines[r], n, "out_time"),
     speed |-> LastToken(stdoutLines[r], n, "speed")]

\* in every step, the log of request r grows by the event of the line read
\* when emits(r, n) holds of that line, and is left alone otherwise
LogFollows(emits(_, _)) ==
    \A r \in Reqs :
        IF ScansLine(r) /\ emits(r, listener'[r].lines)
        THEN progressLog'[r] =
                 Append(progressLog[r], EventOfLine(r, listener'[r].lines))
        ELSE progressLog'[r] = progressLog[r]

CarriesProgress(r, n) == stdoutLines[r][n].progress # ""

ProgressDiffers(r, n) ==
    /\ CarriesProgress(r, n)
    /\ stdoutLines[r][n].progress # LastToken(stdoutLines[r], n - 1, "progress")

NoEventWhenDisabled ==
    disableProgressLogs => \A r \in Reqs : progressLog[r] = <<>>

\* C22 (as the code has it): a line read from stdout yields a progress event
\* if and only if it carries a progress token, whether or not the value is
\* the one of the previous token; the event carries that token and the most
\* recent out_time and speed tokens of this or an earlier line; other lines
\* yield nothing; there is no event at all when progress logs are disabled.
C22_EventPerProgressLine ==
    /\ [][LogFollows(CarriesProgress)]_vars
    /\ []NoEventWhenDisabled

\* two events in a row with the same progress value, the second with the
\* out_time of an earlier line, after a line that matched nothing was read
C22_Witness ==
    \E r \in Reqs :
        /\ listener[r].lines = 3
        /\ Len(progressLog[r]) = 2
        /\ progressLog[r][1].progress = progressLog[r][2].progress
        /\ progressLog[r][2].time # ""
        /\ stdoutLines[r][3].out_time = ""
        /\ \E n \in 1..3 : stdoutLines[r][n] =
               [progress |-> "", out_time |-> "", speed |-> ""]

\* C22 (as stated): a line yields a progress event if and only if it carries
\* a progress token whose value differs from the previous progress token.
C22_EventOnlyOnChange ==
    [][LogFollows(ProgressDiffers)]_vars


\* ------------------------------------------------ a worker and its DoneChan
\* pool.Invoke handed the request to a worker
Handed(r) ==
    IsAsync(r) /\ \E i \in 1..Len(handOrder) : handOrder[i] = id[r]

\* Generate has returned in the worker of a request with a DoneChan and the
\* channel has not accepted the request's result yet
SendPending(r) == kind[r] = "async" /\ genErr[r] # "unset" /\ sent[r] = <<>>

\* the requests with a DoneChan that were handed to a worker and whose result
\* the channel has not accepted yet
AwaitingAccept == {r \in Reqs : kind[r] = "async" /\ Handed(r) /\ sent[r] = <<>>}

\* C23: in the async example's pattern, a worker whose request's result has
\* not been accepted by the DoneChan still counts against the concurrency
\* bound, and while such a send is pending with every slot taken no
\* GenerateAsync caller is given a worker.
C23_BlockedSendHoldsSlot ==
    /\ [](Cardinality(AwaitingAccept) <= poolCap)
    /\ [][\A r \in Reqs :
             SendPending(r) /\ Cardinality(AwaitingAccept) >= poolCap
                 => handOrder' = handOrder]_vars

\* a result waits for room in the full DoneChan, every slot is taken, and the
\* example's loop is inside GenerateAsync with the next request
C23_Witness ==
    \E r, q \in Reqs :
        /\ SendPending(r) /\ Len(doneChan) = ChanCap
        /\ Cardinality(AwaitingAccept) = poolCap
        /\ phase[q] = "invoke" /\ ~ENABLED PoolInvoke(q)

=============================================================================
